---- MODULE Spec2Model ----
(***************************************************************************)
(* Model of start_dev.py: a script that starts the Flask backend in a      *)
(* daemon thread, sleeps, starts the Vite frontend in the main thread and  *)
(* exits on SIGINT through signal_handler (sys.exit(0)).                   *)
(*                                                                         *)
(* subprocess.run(cmd, check=True) is modelled by what CPython does:       *)
(*   Popen(cmd) ; wait for the child ; on any exception raised while       *)
(*   waiting: Popen.kill() (SIGKILL, only if the child has not exited),    *)
(*   wait for the child, re-raise ; non-zero return code raises            *)
(*   CalledProcessError.                                                   *)
(* Python runs signal handlers in the main thread only, so the exception   *)
(* raised by signal_handler appears at the main thread's current position. *)
(* Paths are taken as absolute (__file__ of the main module).              *)
(***************************************************************************)
EXTENDS Naturals, FiniteSets

VARIABLES
    mpc,        \* position of the main thread
    bpc,        \* position of backend_thread
    child,      \* state of each child process
    childCwd,   \* working directory each child was started in
    cwd,        \* process-wide working directory of the supervisor
    sent,       \* signals the supervisor has sent to each child
    outcome,    \* how each run_* call has gone so far
    out,        \* console messages printed by the supervisor
    exitCode,   \* exit code of the supervisor process
    dirOK,      \* environment: the child's working directory exists
    exeOK,      \* environment: the child's executable can be started
    sigCount,   \* number of SIGINTs delivered to the supervisor
    intSnap     \* history: main position and children at the first SIGINT

vars == <<mpc, bpc, child, childCwd, cwd, sent, outcome, out, exitCode,
          dirOK, exeOK, sigCount, intSnap>>

\* Largest number of SIGINTs delivered in one run.
MaxSignals == 2

Names == {"backend", "frontend"}

\* exitCode is the empty set while the supervisor runs, {code} once it exited.
NoCode == {}
NoInt == [pc |-> "none", child |-> [c \in Names |-> "none"]]

\* Directory each run_* function changes into.
DirOf(c) == IF c = "backend" THEN "backend" ELSE "project"

\* A handler clause that catches every exception ("except BaseException").
CatchesEverything(e) == TRUE

\* "except Exception" catches subclasses of Exception only; SystemExit and
\* KeyboardInterrupt derive from BaseException.
IsException(e) == e \in {"CalledProcessError", "FileNotFoundError", "OSError"}

\* What signal_handler raises in the main thread: sys.exit(0).
HandlerRaises == "SystemExit"
HandlerCode == 0

\* A chdir that never fails (the directory is not checked before the launch).
ChdirNeverFails(c) == FALSE

\* os.chdir(d) raises FileNotFoundError when d does not exist.
ChdirFails(c) == ~dirOK[c]

\* Popen raises OSError when the executable cannot be started.
PopenFails(c) == ~exeOK[c]

\* Popen.kill(): SIGKILL unless the child has already exited.
KillChild(c) ==
    IF child[c] = "running"
    THEN /\ child' = [child EXCEPT ![c] = "killed"]
         /\ sent' = [sent EXCEPT ![c] = @ \cup {"SIGKILL"}]
    ELSE UNCHANGED <<child, sent>>

Alive == mpc # "exited"

Init ==
    /\ mpc = "m_thread"
    /\ bpc = "none"
    /\ child = [c \in Names |-> "none"]
    /\ childCwd = [c \in Names |-> "none"]
    /\ cwd = "orig"
    /\ sent = [c \in Names |-> {}]
    /\ outcome = [c \in Names |-> "pending"]
    /\ out = {}
    /\ exitCode = NoCode
    /\ dirOK \in [Names -> BOOLEAN]
    /\ exeOK \in [Names -> BOOLEAN]
    /\ sigCount = 0
    /\ intSnap = NoInt

(***************************************************************************)
(* Environment: a running child exits by itself, with code 0 or not.       *)
(***************************************************************************)
ChildExit ==
    \E c \in Names, s \in {"exit0", "exitN"} :
        /\ child[c] = "running"
        /\ child' = [child EXCEPT ![c] = s]
        /\ UNCHANGED <<mpc, bpc, childCwd, cwd, sent, outcome, out, exitCode,
                       dirOK, exeOK, sigCount, intSnap>>

(***************************************************************************)
(* backend_thread: run_backend                                             *)
(***************************************************************************)
BChdir ==
    /\ Alive /\ bpc = "b_chdir"
    /\ IF ChdirFails("backend")
       THEN /\ bpc' = "b_err"
            /\ outcome' = [outcome EXCEPT !["backend"] = "launch_error"]
            /\ cwd' = cwd
       ELSE /\ bpc' = "b_run"
            /\ cwd' = DirOf("backend")
            /\ outcome' = outcome
    /\ UNCHANGED <<mpc, child, childCwd, sent, out, exitCode, dirOK, exeOK,
                   sigCount, intSnap>>

BPopen ==
    /\ Alive /\ bpc = "b_run"
    /\ IF PopenFails("backend")
       THEN /\ bpc' = "b_err"
            /\ outcome' = [outcome EXCEPT !["backend"] = "launch_error"]
            /\ UNCHANGED <<child, childCwd>>
       ELSE /\ bpc' = "b_wait"
            /\ outcome' = [outcome EXCEPT !["backend"] = "launched"]
            /\ child' = [child EXCEPT !["backend"] = "running"]
            /\ childCwd' = [childCwd EXCEPT !["backend"] = cwd]
    /\ UNCHANGED <<mpc, cwd, sent, out, exitCode, dirOK, exeOK, sigCount,
                   intSnap>>

\* A run_backend that starts the command again after it failed.
BWaitReturn_restart ==
    /\ Alive /\ bpc = "b_wait"
    /\ child["backend"] \in {"exit0", "exitN"}
    /\ IF child["backend"] = "exit0"
       THEN /\ bpc' = "b_done"
            /\ outcome' = [outcome EXCEPT !["backend"] = "exit_ok"]
       ELSE /\ bpc' = "b_run"
            /\ outcome' = [outcome EXCEPT !["backend"] = "exit_fail"]
    /\ UNCHANGED <<mpc, child, childCwd, cwd, sent, out, exitCode, dirOK,
                   exeOK, sigCount, intSnap>>

BWaitReturn ==
    /\ Alive /\ bpc = "b_wait"
    /\ child["backend"] \in {"exit0", "exitN"}
    /\ IF child["backend"] = "exit0"
       THEN /\ bpc' = "b_done"
            /\ outcome' = [outcome EXCEPT !["backend"] = "exit_ok"]
       ELSE /\ bpc' = "b_err"
            /\ outcome' = [outcome EXCEPT !["backend"] = "exit_fail"]
    /\ UNCHANGED <<mpc, child, childCwd, cwd, sent, out, exitCode, dirOK,
                   exeOK, sigCount, intSnap>>

\* A run_backend that ends the whole process after reporting its error.
BErr_exits ==
    /\ Alive /\ bpc = "b_err"
    /\ out' = out \cup {"Backend error"}
    /\ bpc' = "b_done"
    /\ mpc' = "exited"
    /\ exitCode' = {1}
    /\ UNCHANGED <<child, childCwd, cwd, sent, outcome, dirOK, exeOK,
                   sigCount, intSnap>>

BErr ==
    /\ Alive /\ bpc = "b_err"
    /\ out' = out \cup {"Backend error"}
    /\ bpc' = "b_done"
    /\ UNCHANGED <<mpc, child, childCwd, cwd, sent, outcome, exitCode, dirOK,
                   exeOK, sigCount, intSnap>>

run_backend == BChdir \/ BPopen \/ BWaitReturn \/ BErr

(***************************************************************************)
(* Main thread                                                             *)
(***************************************************************************)
MStartThread ==
    /\ mpc = "m_thread"
    /\ bpc' = "b_chdir"
    /\ mpc' = "m_sleep"
    /\ UNCHANGED <<child, childCwd, cwd, sent, outcome, out, exitCode, dirOK,
                   exeOK, sigCount, intSnap>>

MSleep ==
    /\ mpc = "m_sleep"
    /\ mpc' = "f_chdir"
    /\ UNCHANGED <<bpc, child, childCwd, cwd, sent, outcome, out, exitCode,
                   dirOK, exeOK, sigCount, intSnap>>

FChdir ==
    /\ mpc = "f_chdir"
    /\ IF ChdirFails("frontend")
       THEN /\ mpc' = "f_err"
            /\ outcome' = [outcome EXCEPT !["frontend"] = "launch_error"]
            /\ cwd' = cwd
       ELSE /\ mpc' = "f_run"
            /\ cwd' = DirOf("frontend")
            /\ outcome' = outcome
    /\ UNCHANGED <<bpc, child, childCwd, sent, out, exitCode, dirOK, exeOK,
                   sigCount, intSnap>>

FPopen ==
    /\ mpc = "f_run"
    /\ IF PopenFails("frontend")
       THEN /\ mpc' = "f_err"
            /\ outcome' = [outcome EXCEPT !["frontend"] = "launch_error"]
            /\ UNCHANGED <<child, childCwd>>
       ELSE /\ mpc' = "f_spawned"
            /\ outcome' = [outcome EXCEPT !["frontend"] = "launched"]
            /\ child' = [child EXCEPT !["frontend"] = "running"]
            /\ childCwd' = [childCwd EXCEPT !["frontend"] = cwd]
    /\ UNCHANGED <<bpc, cwd, sent, out, exitCode, dirOK, exeOK, sigCount,
                   intSnap>>

\* subprocess.run enters its "with Popen(...) as process: try:" block.
FEnterWait ==
    /\ mpc = "f_spawned"
    /\ mpc' = "f_wait"
    /\ UNCHANGED <<bpc, child, childCwd, cwd, sent, outcome, out, exitCode,
                   dirOK, exeOK, sigCount, intSnap>>

FWaitReturn ==
    /\ mpc = "f_wait"
    /\ child["frontend"] \in {"exit0", "exitN"}
    /\ IF child["frontend"] = "exit0"
       THEN /\ mpc' = "m_end"
            /\ outcome' = [outcome EXCEPT !["frontend"] = "exit_ok"]
       ELSE /\ mpc' = "f_err"
            /\ outcome' = [outcome EXCEPT !["frontend"] = "exit_fail"]
    /\ UNCHANGED <<bpc, child, childCwd, cwd, sent, out, exitCode, dirOK,
                   exeOK, sigCount, intSnap>>

FErr ==
    /\ mpc = "f_err"
    /\ out' = out \cup {"Frontend error"}
    /\ mpc' = "m_end"
    /\ UNCHANGED <<bpc, child, childCwd, cwd, sent, outcome, exitCode, dirOK,
                   exeOK, sigCount, intSnap>>

\* Popen.__exit__ waits for the killed child, then the exception raised by
\* signal_handler leaves run_frontend and the main module.
FReap ==
    /\ mpc = "f_reap"
    /\ child["frontend"] # "running"
    /\ IF IsException(HandlerRaises)
       THEN /\ mpc' = "f_err"
            /\ exitCode' = exitCode
       ELSE /\ mpc' = "exited"
            /\ exitCode' = {HandlerCode}
    /\ UNCHANGED <<bpc, child, childCwd, cwd, sent, outcome, out, dirOK,
                   exeOK, sigCount, intSnap>>

run_frontend == FChdir \/ FPopen \/ FEnterWait \/ FWaitReturn \/ FErr \/ FReap

\* The main module falls off its end: the interpreter exits with code 0
\* without joining the daemon thread.
MEnd ==
    /\ mpc = "m_end"
    /\ mpc' = "exited"
    /\ exitCode' = {0}
    /\ UNCHANGED <<bpc, child, childCwd, cwd, sent, outcome, out, dirOK,
                   exeOK, sigCount, intSnap>>

(***************************************************************************)
(* SIGINT: signal_handler runs in the main thread and raises SystemExit.   *)
(***************************************************************************)
\* A handler that prints its message and returns without sys.exit(0).
signal_handler_no_exit ==
    /\ out' = out \cup {"Shutting down servers..."}
    /\ UNCHANGED <<mpc, child, sent, exitCode>>

signal_handler ==
    /\ out' = out \cup {"Shutting down servers..."}
    /\ IF mpc = "f_wait"
       THEN \* inside subprocess.run's wait: kill the child, then reap it
            /\ KillChild("frontend")
            /\ mpc' = "f_reap"
            /\ exitCode' = exitCode
       ELSE IF mpc \in {"f_chdir", "f_run", "f_spawned"} /\ IsException(HandlerRaises)
       THEN \* raised inside run_frontend's try block and caught there
            /\ mpc' = "f_err"
            /\ UNCHANGED <<child, sent, exitCode>>
       ELSE \* nothing catches it: the interpreter exits
            /\ mpc' = "exited"
            /\ exitCode' = {HandlerCode}
            /\ UNCHANGED <<child, sent>>

SigInt ==
    /\ Alive
    /\ sigCount < MaxSignals
    /\ sigCount' = sigCount + 1
    /\ intSnap' = IF sigCount = 0 THEN [pc |-> mpc, child |-> child] ELSE intSnap
    /\ signal_handler
    /\ UNCHANGED <<bpc, childCwd, cwd, outcome, dirOK, exeOK>>

MainThread == MStartThread \/ MSleep \/ run_frontend \/ MEnd

Next == MainThread \/ run_backend \/ SigInt \/ ChildExit

Spec == Init /\ [][Next]_vars

\* The main thread keeps running when it can take a step.
LiveSpec == Spec /\ WF_vars(MainThread)

TypeOK ==
    /\ mpc \in {"m_thread", "m_sleep", "f_chdir", "f_run", "f_spawned",
                "f_wait", "f_reap", "f_err", "m_end", "exited"}
    /\ bpc \in {"none", "b_chdir", "b_run", "b_wait", "b_err", "b_done"}
    /\ child \in [Names -> {"none", "running", "exit0", "exitN", "killed"}]
    /\ sigCount \in 0..MaxSignals
    /\ exitCode \in {NoCode, {0}}

(***************************************************************************)
(* Vocabulary of the properties                                            *)
(***************************************************************************)
Stopped == mpc = "exited"
Other(c) == IF c = "backend" THEN "frontend" ELSE "backend"

\* A step taken by the supervisor's own code (either thread or the handler),
\* as opposed to a step of a child process.
SupervisorStep == mpc' # mpc \/ bpc' # bpc

Interrupted == intSnap # NoInt
IntInRunning ==
    /\ Interrupted
    /\ intSnap.pc \in {"f_spawned", "f_wait"}
    /\ \A c \in Names : intSnap.child[c] = "running"

LaunchFailed == \E c \in Names : outcome[c] = "launch_error"
ChildFailed == \E c \in Names : outcome[c] = "exit_fail"

\* C1: when a child has exited with a non-zero code while the other child
\* is running, the supervisor's next step sends a termination request to
\* the other child.
C1_SiblingTerminatedNextStep ==
    [][\A c \in Names :
          (/\ child[c] = "exitN"
           /\ child[Other(c)] = "running"
           /\ sent[Other(c)] = {}
           /\ SupervisorStep)
          => sent'[Other(c)] # {}]_vars

\* C2: once the supervisor has stopped, no launched child is still running
\* and every launched child was sent a termination request.
C2_NoChildLeftRunning ==
    Stopped => \A c \in Names :
                  /\ child[c] # "running"
                  /\ (child[c] # "none" => sent[c] # {})

\* C3: the exit code is 2 after a launch failure, 1 after a child failed
\* without a launch failure, 0 after an interrupt with no failure.
C3_ExitCodeByCause ==
    Stopped =>
        /\ (~Interrupted /\ LaunchFailed) => exitCode = {2}
        /\ (~Interrupted /\ ~LaunchFailed /\ ChildFailed) => exitCode = {1}
        /\ (Interrupted /\ ~LaunchFailed /\ ~ChildFailed) => exitCode = {0}

\* C4: a spec whose working directory does not exist is never started: its
\* launch ends in an error outcome and no child process exists for it.
C4_MissingDirNoChild ==
    \A c \in Names :
        ~dirOK[c] => /\ child[c] = "none"
                     /\ childCwd[c] = "none"
                     /\ outcome[c] \in {"pending", "launch_error"}

C4_Witness ==
    /\ ~dirOK["backend"]
    /\ outcome["backend"] = "launch_error"
    /\ "Backend error" \in out
    /\ bpc = "b_done"

\* C5: once launching the backend has failed, the frontend is not started.
C5_LaunchFailureAborts ==
    [][(outcome["backend"] = "launch_error" /\ child["frontend"] = "none")
         => child'["frontend"] = "none"]_vars

\* C6: once the backend has exited with a non-zero code before the frontend
\* was launched, the frontend is not launched and the supervisor, when it
\* exits without an interrupt, exits with code 1.
C6_EarlyFailureStopsStartup ==
    [][(/\ child["backend"] = "exitN"
        /\ child["frontend"] = "none"
        /\ sigCount' = sigCount)
         => /\ child'["frontend"] = "none"
            /\ (mpc' = "exited" => exitCode' = {1})]_vars

\* C7: after an interrupt that arrived while both children were running,
\* the stopped supervisor has sent a termination request to both children
\* and its exit code is 0.
C7_InterruptTerminatesBoth ==
    (Stopped /\ IntInRunning) =>
        /\ \A c \in Names : sent[c] # {}
        /\ exitCode = {0}

\* C8: after an interrupt delivered while both children are running, the
\* main thread has nothing left to do but reap the frontend and exit, and
\* the supervisor eventually stops.
C8_InterruptLeadsToStopped ==
    /\ [](IntInRunning => mpc \in {"f_reap", "exited"})
    /\ (IntInRunning ~> Stopped)

C8_Witness ==
    /\ IntInRunning
    /\ intSnap.pc = "f_wait"
    /\ Stopped

\* C9: the supervisor sends SIGKILL to a child only after it has sent it a
\* graceful termination request, and a step that handles an interrupt
\* neither kills a child nor ends the supervisor while a child is running.
C9_GracefulShutdown ==
    [][/\ \A c \in Names :
            ("SIGKILL" \in sent'[c] /\ "SIGKILL" \notin sent[c])
               => "SIGTERM" \in sent[c]
       /\ (sigCount' # sigCount /\ \E c \in Names : child[c] = "running")
            => mpc' # "exited"]_vars

\* C10 speaks of a child to which terminate() was issued. The supervisor
\* never sends a graceful termination request, so no state satisfies that
\* precondition.
NeverSendsSIGTERM == \A c \in Names : "SIGTERM" \notin sent[c]

ErrorMessage(c) == IF c = "backend" THEN "Backend error" ELSE "Frontend error"

\* C11: when the supervisor has stopped, every launch failure and every
\* non-zero child exit its code has observed has been reported on the
\* console under the name of the process.
C11_EveryErrorReported ==
    Stopped => \A c \in Names :
                  outcome[c] \in {"launch_error", "exit_fail"}
                     => ErrorMessage(c) \in out

\* C12: the frontend child is started only after the backend child has been
\* started.
C12_BackendStartedFirst ==
    child["frontend"] # "none" => child["backend"] # "none"

\* C13: every child is started in the working directory of its own spec.
C13_OwnWorkingDirectory ==
    \A c \in Names : childCwd[c] # "none" => childCwd[c] = DirOf(c)

\* C14: each command is started at most once: a child is started only from
\* the state in which it never existed, and a child that has existed never
\* returns to that state.
C14_StartedAtMostOnce ==
    [][\A c \in Names :
          /\ (child'[c] = "running" /\ child[c] # "running") => child[c] = "none"
          /\ child[c] # "none" => child'[c] # "none"
          /\ childCwd[c] # "none" => childCwd'[c] = childCwd[c]]_vars

C14_Witness ==
    /\ child["backend"] = "exitN"
    /\ bpc = "b_done"
    /\ child["frontend"] \in {"exit0", "exitN"}
    /\ mpc = "m_end"

\* The supervisor's state, read off the position of the main thread: Idle
\* before the backend thread is started, Starting until the last spec (the
\* frontend) is launched, Running while main waits for the frontend,
\* ShuttingDown on the way out, Stopped once the process has exited.
SupState ==
    IF mpc = "m_thread" THEN "Idle"
    ELSE IF mpc \in {"m_sleep", "f_chdir", "f_run"} THEN "Starting"
    ELSE IF mpc \in {"f_spawned", "f_wait"} THEN "Running"
    ELSE IF mpc \in {"f_reap", "f_err", "m_end"} THEN "ShuttingDown"
    ELSE "Stopped"

Rank(s) ==
    IF s = "Idle" THEN 0
    ELSE IF s = "Starting" THEN 1
    ELSE IF s = "Running" THEN 2
    ELSE IF s = "ShuttingDown" THEN 3
    ELSE 4

\* The state never moves backwards and Stopped is never left.
StateOnlyMovesForward == [][Rank(SupState') >= Rank(SupState)]_vars

\* C15: the state only moves forward along Idle, Starting, Running,
\* ShuttingDown, Stopped, and Running is entered only when every spec has
\* been launched successfully.
C15_ForwardAndRunningMeansAllLaunched ==
    [][/\ Rank(SupState') >= Rank(SupState)
       /\ (SupState' = "Running" /\ SupState # "Running")
            => \A c \in Names : outcome'[c] \notin {"pending", "launch_error"}]_vars

\* C16: an interrupt delivered after the backend thread was started and
\* before the frontend was launched stops the supervisor with exit code 0
\* and the frontend command is never started.
C16_InterruptDuringStartup ==
    (Interrupted /\ intSnap.pc \in {"m_sleep", "f_chdir", "f_run"}) =>
        /\ Stopped
        /\ exitCode = {0}
        /\ child["frontend"] = "none"
        /\ childCwd["frontend"] = "none"

C16_Witness ==
    /\ Interrupted
    /\ intSnap.pc = "m_sleep"
    /\ child["backend"] = "running"
    /\ Stopped

FrontendFinished == outcome["frontend"] \in {"launch_error", "exit_ok", "exit_fail"}

\* C17: the supervisor stops only after an interrupt or after the frontend
\* launch attempt has finished, and no step of the backend thread moves the
\* main thread or touches the frontend child.
C17_BackendNeverEndsSupervisor ==
    /\ [](Stopped => (Interrupted \/ FrontendFinished))
    /\ [][bpc' # bpc /\ bpc # "none"
            => /\ mpc' = mpc
               /\ child'["frontend"] = child["frontend"]
               /\ sent'["frontend"] = sent["frontend"]]_vars

C17_Witness ==
    /\ Stopped
    /\ ~Interrupted
    /\ outcome["backend"] \in {"launch_error", "exit_fail"}
    /\ "Backend error" \in out
    /\ outcome["frontend"] = "exit_ok"

\* C18: an interrupt delivered while main waits on the running frontend is
\* not caught in run_frontend: main only reaps the child and exits with the
\* handler's code, the frontend is not running once the supervisor has
\* stopped, and no "Frontend error" is printed.
C18_SystemExitNotAbsorbed ==
    (Interrupted /\ intSnap.pc = "f_wait" /\ intSnap.child["frontend"] = "running") =>
        /\ mpc \in {"f_reap", "exited"}
        /\ child["frontend"] = "killed"
        /\ "Frontend error" \notin out
        /\ Stopped => exitCode = {0}

C18_Witness ==
    /\ Interrupted
    /\ intSnap.pc = "f_wait"
    /\ intSnap.child["frontend"] = "running"
    /\ Stopped
    /\ child["frontend"] = "killed"
====
